---------------------------- MODULE Spec2Model ----------------------------
(***************************************************************************)
(* Market Daybreak: the daily pre-market report generator.                 *)
(*                                                                         *)
(* The module models, from the Python sources,                             *)
(*   - the trading-day calculator  (generate_daybreak.get_prior_trading_day)*)
(*   - the narrative-response parser (generate_daybreak.call_claude)       *)
(*   - the market-data fetcher     (data/fetch_global_markets.py)          *)
(*   - the orchestrator            (generate_daybreak.main)                *)
(*   - the pre-market quote fetcher (data/fetch_premarket.py)              *)
(* Each component has a specification of its own (SpecDay, SpecParse,      *)
(* SpecSymbol, SpecFetchAll, Spec, SpecPremarket); the variables of the    *)
(* components a specification does not exercise stay at their idle values. *)
(***************************************************************************)
EXTENDS Integers, Sequences, FiniteSets, TLC

VARIABLES
    \* get_prior_trading_day
    dt,          \* dt.date(), a proleptic Gregorian ordinal
    d,           \* the local d of the loop
    dpc,         \* "idle" | "call" | "loop" | "done"
    dresult,     \* the returned date
    \* call_claude, from the service's response on
    ptext,       \* message.content[0].text
    ppc,         \* "idle" | "call" | "done"
    presult,     \* the returned dict
    \* the disk under data/cache
    cache_dir,   \* whether CACHE_DIR exists
    cache,       \* (symbol, trade_date) -> the content of its cache file
    \* one call of fetch_symbol
    spc,         \* "idle" | "call" | "returned" | "raised"
    sargs,       \* its arguments symbol, trade_date, sleep
    sresp,       \* what the provider answers if it is asked
    sret,        \* the returned dict
    strace,      \* the provider calls, cache writes and sleeps of the call, in order
    sfound,      \* the key's cache file as the process found it at its start
    \* one call of fetch_all_markets
    fpc,         \* "idle" | "loop" | "returned" | "raised"
    fargs,       \* its arguments trade_date, indices
    fi,          \* the loop's position in indices, from 1
    rows,        \* the list rows
    ftrace,      \* as strace, over the whole call
    \* main
    mpc,         \* the statement main is at
    env,         \* the environment after load_dotenv
    argv,        \* the command line
    exit_code,   \* the process's exit code once it has exited
    narrative,   \* morning_brief and positioning_tips
    report,      \* the rendered Markdown
    stdout,      \* whether the report was printed
    md_file,     \* output/daybreak_<date>.md
    pdf_file,    \* output/daybreak_<date>.pdf
    mail,        \* the delivery attempt: the recipients and how send_report ended
    mlog,        \* the stages whose failure logger.warning reported
    \* one call of fetch_premarket
    pmpc,        \* "idle" | "loop" | "returned"
    pmi,         \* the loop's position in PREMARKET_SYMBOLS, from 1
    results,     \* the list results
    pmtrace      \* the provider calls (with the answer) and sleeps of the call, in order

dayVars == <<dt, d, dpc, dresult>>
parseVars == <<ptext, ppc, presult>>
diskVars == <<cache_dir, cache>>
symVars == <<spc, sargs, sresp, sret, strace, sfound>>
faVars == <<fpc, fargs, fi, rows, ftrace>>
mainVars == <<mpc, env, argv, exit_code, narrative, report, stdout, md_file, pdf_file, mail, mlog>>

pmVars == <<pmpc, pmi, results, pmtrace>>

vars == <<dayVars, parseVars, diskVars, symVars, faVars, mainVars, pmVars>>

\* Python's None
None == [py |-> "None"]

\* A file that does not exist
Absent == [file |-> "absent"]

ParseIdle ==
    /\ ptext = <<>>
    /\ ppc = "idle"
    /\ presult = None

PmIdle ==
    /\ pmpc = "idle"
    /\ pmi = 0
    /\ results = <<>>
    /\ pmtrace = <<>>

DiskIdle ==
    /\ cache_dir = FALSE
    /\ cache = None

SymIdle ==
    /\ spc = "idle"
    /\ sargs = None
    /\ sresp = None
    /\ sret = None
    /\ strace = <<>>
    /\ sfound = None

FaIdle ==
    /\ fpc = "idle"
    /\ fargs = None
    /\ fi = 0
    /\ rows = <<>>
    /\ ftrace = <<>>

MainIdle ==
    /\ mpc = "idle"
    /\ env = None
    /\ argv = None
    /\ exit_code = None
    /\ narrative = None
    /\ report = None
    /\ stdout = FALSE
    /\ md_file = Absent
    /\ pdf_file = Absent
    /\ mail = None
    /\ mlog = {}

-----------------------------------------------------------------------------
(***************************************************************************)
(* Dates.  datetime.date is modelled by its proleptic Gregorian ordinal    *)
(* (date.toordinal()): timedelta(days=1) is 1, weekday() is                *)
(* (ordinal + 6) % 7 with Monday = 0.                                      *)
(***************************************************************************)
IsLeap(y) == (y % 4 = 0) /\ ((y % 100 # 0) \/ (y % 400 = 0))

DaysBeforeYear(y) ==
    LET p == y - 1 IN p * 365 + (p \div 4) - (p \div 100) + (p \div 400)

DaysInMonth(y, m) ==
    IF m = 2 THEN (IF IsLeap(y) THEN 29 ELSE 28)
    ELSE IF m \in {4, 6, 9, 11} THEN 30 ELSE 31

RECURSIVE DaysBeforeMonth(_, _)
DaysBeforeMonth(y, m) ==
    IF m = 1 THEN 0 ELSE DaysBeforeMonth(y, m - 1) + DaysInMonth(y, m - 1)

\* date(y, m, d)
Date(y, m, dd) == DaysBeforeYear(y) + DaysBeforeMonth(y, m) + dd

\* date.weekday(): Monday is 0, Sunday is 6
Weekday(o) == (o + 6) % 7

US_MARKET_HOLIDAYS ==
    { Date(2026, 1, 1),  Date(2026, 1, 19), Date(2026, 2, 16), Date(2026, 4, 3),
      Date(2026, 5, 25), Date(2026, 6, 19), Date(2026, 7, 3),  Date(2026, 9, 7),
      Date(2026, 11, 26), Date(2026, 12, 25),
      Date(2025, 1, 1),  Date(2025, 1, 20), Date(2025, 2, 17), Date(2025, 4, 18),
      Date(2025, 5, 26), Date(2025, 6, 19), Date(2025, 7, 4),  Date(2025, 9, 1),
      Date(2025, 11, 27), Date(2025, 12, 25) }

\* The timestamps tried: HorizonDays consecutive dates from FirstDay on, which
\* cover every date of the holiday set and the weekends around them.
HorizonDays == 760
FirstDay == Date(2024, 12, 20)
InputDays == FirstDay .. (FirstDay + HorizonDays - 1)

\* A plausible slip: only Sunday counts as weekend.
SkipDayOnlySunday(x) == Weekday(x) >= 6 \/ x \in US_MARKET_HOLIDAYS

\* The loop condition of get_prior_trading_day (line 68)
SkipDay(x) == Weekday(x) >= 5 \/ x \in US_MARKET_HOLIDAYS

DayIdle ==
    /\ dt = 0
    /\ d = 0
    /\ dpc = "idle"
    /\ dresult = 0

DayInit ==
    /\ dt \in InputDays
    /\ d = 0
    /\ dpc = "call"
    /\ dresult = 0
    /\ ParseIdle /\ DiskIdle /\ SymIdle /\ FaIdle /\ MainIdle /\ PmIdle

\* d = dt.date() - timedelta(days=1)
DayEnter ==
    /\ dpc = "call"
    /\ d' = dt - 1
    /\ dpc' = "loop"
    /\ UNCHANGED <<dt, dresult, parseVars, diskVars, symVars, faVars, mainVars, pmVars>>

\* while ...: d -= timedelta(days=1)
DayStep ==
    /\ dpc = "loop"
    /\ SkipDay(d)
    /\ d' = d - 1
    /\ UNCHANGED <<dt, dpc, dresult, parseVars, diskVars, symVars, faVars, mainVars, pmVars>>

\* return d
DayReturn ==
    /\ dpc = "loop"
    /\ ~SkipDay(d)
    /\ dresult' = d
    /\ dpc' = "done"
    /\ UNCHANGED <<dt, d, parseVars, diskVars, symVars, faVars, mainVars, pmVars>>

DayNext == DayEnter \/ DayStep \/ DayReturn

SpecDay == DayInit /\ [][DayNext]_vars

\* The glossary's trading day: a weekday (Mon-Fri) that is no market holiday.
IsTradingDay(x) == Weekday(x) \in 0..4 /\ x \notin US_MARKET_HOLIDAYS

\* C1: the date get_prior_trading_day returns is strictly earlier than the
\* input date, is a weekday (Mon-Fri) outside the holiday set, and no trading
\* day lies strictly between it and the input date.
C1_PriorTradingDay ==
    dpc = "done" =>
        /\ dresult < dt
        /\ Weekday(dresult) \notin {5, 6}
        /\ dresult \notin US_MARKET_HOLIDAYS
        /\ \A x \in (dresult + 1) .. (dt - 1) : ~IsTradingDay(x)

\* Tuesday 2026-01-20: Monday is MLK Day, then the weekend; Friday is returned.
C1_Witness ==
    /\ dpc = "done"
    /\ dt = Date(2026, 1, 20)
    /\ dresult = Date(2026, 1, 16)

-----------------------------------------------------------------------------
(***************************************************************************)
(* Strings.  A str is a sequence of characters over a small alphabet.  The *)
(* two section labels of the prompt are kept as multi-character literals   *)
(* that end in ":" and differ in what precedes it, abbreviated to two      *)
(* characters each ("P:" for "POSITIONING_TIPS:", "M:" for                 *)
(* "MORNING_BRIEF:"); like the originals neither overlaps itself or the    *)
(* other, and fragments of them ("P", "M", ":") can occur on their own.    *)
(***************************************************************************)
Chars == {"P", "M", ":", " ", "x"}

MARKER == <<"P", ":">>
LABEL == <<"M", ":">>

\* The table call_claude substitutes when the marker is absent (lines 154-158)
PLACEHOLDER_TABLE == <<"| Signal | Action | Rationale |", "| *Data unavailable* | - | - |">>

MaxText == 6
Texts == UNION {[1..n -> Chars] : n \in 0..MaxText}

IsSpace(c) == c = " "

\* str.lstrip() / str.rstrip() / str.strip()
RECURSIVE LStrip(_)
LStrip(s) == IF s # <<>> /\ IsSpace(Head(s)) THEN LStrip(Tail(s)) ELSE s

RECURSIVE RStrip(_)
RStrip(s) ==
    IF s # <<>> /\ IsSpace(s[Len(s)]) THEN RStrip(SubSeq(s, 1, Len(s) - 1)) ELSE s

Strip(s) == RStrip(LStrip(s))

StartsWith(s, pat) == Len(s) >= Len(pat) /\ SubSeq(s, 1, Len(pat)) = pat

\* str.find(pat) + 1: the start of the first occurrence scanning from the
\* left, 0 when there is none
RECURSIVE FindFrom(_, _, _)
FindFrom(s, pat, i) ==
    IF i + Len(pat) - 1 > Len(s) THEN 0
    ELSE IF SubSeq(s, i, i + Len(pat) - 1) = pat THEN i
    ELSE FindFrom(s, pat, i + 1)

Find(s, pat) == FindFrom(s, pat, 1)

\* str.rfind(pat) + 1
RECURSIVE RFindFrom(_, _, _)
RFindFrom(s, pat, i) ==
    IF i < 1 THEN 0
    ELSE IF SubSeq(s, i, i + Len(pat) - 1) = pat THEN i
    ELSE RFindFrom(s, pat, i - 1)

\* pat in s
Contains(s, pat) == Find(s, pat) # 0

\* s.split(pat, 1) when pat occurs in s: <<before, after>>
Split1(s, pat) ==
    LET i == Find(s, pat)
    IN  <<SubSeq(s, 1, i - 1), SubSeq(s, i + Len(pat), Len(s))>>

\* s.replace(pat, ""): the non-overlapping occurrences found scanning from
\* the left are dropped, in one pass
RECURSIVE Remove(_, _)
Remove(s, pat) ==
    IF s = <<>> THEN <<>>
    ELSE IF StartsWith(s, pat) THEN Remove(SubSeq(s, Len(pat) + 1, Len(s)), pat)
    ELSE <<Head(s)>> \o Remove(Tail(s), pat)

\* A plausible slip: the split is taken at the last marker (rsplit).
ParseNarrativeLast(text) ==
    LET raw == Strip(text)
        i == RFindFrom(raw, MARKER, Len(raw) - Len(MARKER) + 1)
    IN  IF Contains(raw, MARKER)
        THEN [morning_brief |-> Strip(Remove(SubSeq(raw, 1, i - 1), LABEL)),
              positioning_tips |-> Strip(SubSeq(raw, i + Len(MARKER), Len(raw)))]
        ELSE [morning_brief |-> Strip(Remove(raw, LABEL)),
              positioning_tips |-> PLACEHOLDER_TABLE]

\* call_claude from the response text on (lines 144-160)
ParseNarrative(text) ==
    LET raw == Strip(text)
    IN  IF Contains(raw, MARKER)
        THEN LET parts == Split1(raw, MARKER)
             IN  [morning_brief |-> Strip(Remove(parts[1], LABEL)),
                  positioning_tips |-> Strip(parts[2])]
        ELSE [morning_brief |-> Strip(Remove(raw, LABEL)),
              positioning_tips |-> PLACEHOLDER_TABLE]

ParseInit ==
    /\ ptext \in Texts
    /\ ppc = "call"
    /\ presult = None
    /\ DayIdle /\ DiskIdle /\ SymIdle /\ FaIdle /\ MainIdle /\ PmIdle

\* The service answered with ptext; call_claude parses it and returns.
ParseReturn ==
    /\ ppc = "call"
    /\ presult' = ParseNarrative(ptext)
    /\ ppc' = "done"
    /\ UNCHANGED <<ptext, dayVars, diskVars, symVars, faVars, mainVars, pmVars>>

ParseNext == ParseReturn

SpecParse == ParseInit /\ [][ParseNext]_vars

(* What the claim's words mean, stated on positions of the text rather than
   by the scanning functions above. *)
OccursAt(s, pat, i) ==
    /\ i >= 1
    /\ i + Len(pat) - 1 <= Len(s)
    /\ \A k \in 1..Len(pat) : s[i + k - 1] = pat[k]

Occurrences(s, pat) == {i \in 1..Len(s) : OccursAt(s, pat, i)}

FirstOccurrence(s, pat) ==
    CHOOSE i \in Occurrences(s, pat) : \A j \in Occurrences(s, pat) : i <= j

\* s without its surrounding whitespace
Trimmed(s) ==
    LET ink == {k \in 1..Len(s) : s[k] # " "}
    IN  IF ink = {} THEN <<>>
        ELSE LET lo == CHOOSE k \in ink : \A j \in ink : k <= j
                 hi == CHOOSE k \in ink : \A j \in ink : k >= j
             IN  [k \in 1..(hi - lo + 1) |-> s[lo + k - 1]]

\* The indices of s that no occurrence of pat covers, in order
RECURSIVE KeepFrom(_, _, _)
KeepFrom(s, covered, k) ==
    IF k > Len(s) THEN <<>>
    ELSE (IF k \in covered THEN <<>> ELSE <<s[k]>>) \o KeepFrom(s, covered, k + 1)

\* s with every occurrence of pat cut out
Without(s, pat) ==
    LET covered == {k \in 1..Len(s) :
                      \E i \in Occurrences(s, pat) : k \in i..(i + Len(pat) - 1)}
    IN  KeepFrom(s, covered, 1)

TextBeforeMarker(s) == SubSeq(s, 1, FirstOccurrence(s, MARKER) - 1)
TextAfterMarker(s) == SubSeq(s, FirstOccurrence(s, MARKER) + Len(MARKER), Len(s))

\* C7 as written: with the marker, the brief is the trimmed text before its
\* first occurrence and the table the trimmed text after it; without it, the
\* brief is the entire (trimmed) text and the table the placeholder.
C7_Original ==
    ppc = "done" =>
        IF Occurrences(ptext, MARKER) # {}
        THEN /\ presult.morning_brief = Trimmed(TextBeforeMarker(ptext))
             /\ presult.positioning_tips = Trimmed(TextAfterMarker(ptext))
        ELSE /\ presult.morning_brief = Trimmed(ptext)
             /\ presult.positioning_tips = PLACEHOLDER_TABLE

\* C7 (amended): as C7, except that every occurrence of the literal label
\* MORNING_BRIEF: is cut out of the brief before it is trimmed.
C7_SplitAtMarker ==
    ppc = "done" =>
        IF Occurrences(ptext, MARKER) # {}
        THEN /\ presult.morning_brief = Trimmed(Without(TextBeforeMarker(ptext), LABEL))
             /\ presult.positioning_tips = Trimmed(TextAfterMarker(ptext))
        ELSE /\ presult.morning_brief = Trimmed(Without(ptext, LABEL))
             /\ presult.positioning_tips = PLACEHOLDER_TABLE

\* "M:x P: x": label, prose, marker, table
C7_Witness ==
    /\ ppc = "done"
    /\ ptext = <<"M", ":", "x", "P", ":", "x">>
    /\ presult = [morning_brief |-> <<"x">>, positioning_tips |-> <<"x">>]

-----------------------------------------------------------------------------
(***************************************************************************)
(* Floats.  A float is an exact fraction num/den in lowest terms with      *)
(* den > 0, so that equal numbers are equal values; rounding is not        *)
(* modelled.  A division by zero raises (ZeroDivisionError) in Python; the *)
(* closes the provider reports are positive, so none occurs.               *)
(***************************************************************************)
Abs(n) == IF n < 0 THEN -n ELSE n

RECURSIVE Gcd(_, _)
Gcd(a, b) == IF b = 0 THEN a ELSE Gcd(b, a % b)

Frac(n, dd) ==
    LET g == Gcd(Abs(n), Abs(dd))
        sgn == IF dd < 0 THEN -1 ELSE 1
    IN  [num |-> sgn * (n \div g), den |-> sgn * (dd \div g)]

\* float("<n>")
Float(n) == [num |-> n, den |-> 1]
FSub(a, b) == Frac(a.num * b.den - b.num * a.den, a.den * b.den)
FMul(a, b) == Frac(a.num * b.num, a.den * b.den)
FDiv(a, b) == Frac(a.num * b.den, a.den * b.num)

-----------------------------------------------------------------------------
(***************************************************************************)
(* The market-data fetcher (data/fetch_global_markets.py).                 *)
(*                                                                         *)
(* A trade date "YYYY-MM-DD" is modelled by a day number: the fixed-width  *)
(* strings sort as the days do.  A cache file is Absent, Unreadable (its   *)
(* bytes are not JSON: a write that was cut short) or holds the dict that  *)
(* _save_cache wrote.                                                      *)
(***************************************************************************)
Symbols == {"SPY", "EWG"}

MaxDate == 4
Dates == 1..MaxDate

\* The date callers ask for (one process asks for one date, computed once in
\* main): the last but one, so that a series may hold older and newer dates.
TradeDates == {MaxDate - 1}

\* The closes "4. close" of the provider's series
Prices == {1, 2}

Keys == Symbols \X TradeDates

Unreadable == [file |-> "unreadable"]

\* resp.json()["Time Series (Daily)"]: date -> close, for some of the dates
AllSeries == UNION {[D -> Prices] : D \in SUBSET Dates}

\* What requests.get / resp.json() can give: a transport failure (exception
\* or HTTP status), one of the three soft-error payloads, a payload with no
\* series, or a payload with a series (possibly empty).
Responses ==
    {[kind |-> "transport"]}
    \cup {[kind |-> "json", key |-> k] : k \in {"Information", "Note", "Error Message", "none"}}
    \cup {[kind |-> "json", key |-> "Time Series (Daily)", ts |-> ts] : ts \in AllSeries}

\* What the provider answers to a later call or inside the loop of
\* fetch_all_markets: any failure, or a series over
\* the requested date, the date before and the date after it (the compact
\* output is a window of the most recent dates).
LoopResponses ==
    {r \in Responses :
        (r.kind = "json" /\ r.key = "Time Series (Daily)")
            => DOMAIN r.ts \subseteq (MaxDate - 2)..MaxDate}

\* sorted(ts.keys(), reverse=True)
RECURSIVE SortedDesc(_)
SortedDesc(S) ==
    IF S = {} THEN <<>>
    ELSE LET m == CHOOSE x \in S : \A y \in S : y <= x
         IN  <<m>> \o SortedDesc(S \ {m})

\* list.index(x), from 1
IndexOf(seq, x) == CHOOSE i \in 1..Len(seq) : seq[i] = x /\ \A j \in 1..(i - 1) : seq[j] # x

\* A plausible slip: the fallback takes the oldest date of the series (dates[-1]).
BuildResultOldestFallback(symbol, trade_date, ts) ==
    LET dates == SortedDesc(DOMAIN ts)
        target_date == IF trade_date \notin DOMAIN ts THEN dates[Len(dates)] ELSE trade_date
        target_idx == IndexOf(dates, target_date)
        close == Float(ts[target_date])
        has_prev == target_idx < Len(dates)
        prev_close == IF has_prev THEN Float(ts[dates[target_idx + 1]]) ELSE None
        change == IF has_prev THEN FSub(close, prev_close) ELSE None
    IN  [symbol |-> symbol, close |-> close, prev_close |-> prev_close, change |-> change,
         pct_change |-> IF has_prev THEN FMul(FDiv(change, prev_close), Float(100)) ELSE None,
         date |-> target_date]

\* A plausible slip: the previous close is taken from the oldest entry.
BuildResultPrevOldest(symbol, trade_date, ts) ==
    LET dates == SortedDesc(DOMAIN ts)
        target_date == IF trade_date \notin DOMAIN ts THEN dates[1] ELSE trade_date
        target_idx == IndexOf(dates, target_date)
        close == Float(ts[target_date])
        has_prev == target_idx < Len(dates)
        prev_close == IF has_prev THEN Float(ts[dates[Len(dates)]]) ELSE None
        change == IF has_prev THEN FSub(close, prev_close) ELSE None
    IN  [symbol |-> symbol, close |-> close, prev_close |-> prev_close, change |-> change,
         pct_change |-> IF has_prev THEN FMul(FDiv(change, prev_close), Float(100)) ELSE None,
         date |-> target_date]

\* fetch_symbol, lines 70-102: the result dict from a non-empty series.
\* dates is indexed from 1 here, so "target_idx + 1 < len(dates)" reads
\* target_idx < Len(dates).
BuildResult(symbol, trade_date, ts) ==
    LET dates == SortedDesc(DOMAIN ts)
        target_date == IF trade_date \notin DOMAIN ts THEN dates[1] ELSE trade_date
        target_idx == IndexOf(dates, target_date)
        close == Float(ts[target_date])
        has_prev == target_idx < Len(dates)
        prev_close == IF has_prev THEN Float(ts[dates[target_idx + 1]]) ELSE None
        change == IF has_prev THEN FSub(close, prev_close) ELSE None
    IN  [symbol |-> symbol, close |-> close, prev_close |-> prev_close, change |-> change,
         pct_change |-> IF has_prev THEN FMul(FDiv(change, prev_close), Float(100)) ELSE None,
         date |-> target_date]

\* bool(x) of what _load_cache returns: None and the empty dict are falsy
Truthy(x) == x # None /\ DOMAIN x # {}

\* _load_cache: None without the file, json.load's exception on bytes that
\* are not JSON, else the dict
LoadCache(file) ==
    IF file = Absent THEN [raised |-> FALSE, value |-> None]
    ELSE IF file = Unreadable THEN [raised |-> TRUE, value |-> None]
    ELSE [raised |-> FALSE, value |-> file]

Raise(trace) == [outcome |-> "raise", value |-> None, write |-> None, trace |-> trace]

\* A plausible slip: the cache is not consulted.
FetchSymbolLive(file, symbol, trade_date, resp, sleep) ==
    IF resp.kind = "transport" \/ resp.key # "Time Series (Daily)" THEN Raise(<<"get">>)
    ELSE IF DOMAIN resp.ts = {} THEN Raise(<<"get">>)
    ELSE LET result == BuildResult(symbol, trade_date, resp.ts)
         IN  [outcome |-> "return", value |-> result, write |-> result,
              trace |-> <<"get", "save">> \o (IF sleep THEN <<"sleep">> ELSE <<>>)]

\* A plausible slip: an entry whose date is not the key's is fetched again.
FetchSymbolRefreshStale(file, symbol, trade_date, resp, sleep) ==
    LET cached == LoadCache(file)
    IN  IF cached.raised THEN Raise(<<>>)
        ELSE IF Truthy(cached.value) /\ cached.value.date = trade_date
        THEN [outcome |-> "return", value |-> cached.value, write |-> None, trace |-> <<>>]
        ELSE IF resp.kind = "transport" \/ resp.key # "Time Series (Daily)" THEN Raise(<<"get">>)
        ELSE IF DOMAIN resp.ts = {} THEN Raise(<<"get">>)
        ELSE LET result == BuildResult(symbol, trade_date, resp.ts)
             IN  [outcome |-> "return", value |-> result, write |-> result,
                  trace |-> <<"get", "save">> \o (IF sleep THEN <<"sleep">> ELSE <<>>)]

\* fetch_symbol (lines 36-110) on the cache file of (symbol, trade_date) and
\* the provider's answer: how it ends, what it returns, what it writes to
\* the cache file (None: nothing) and its provider calls ("get"), cache
\* writes ("save") and sleeps ("sleep") in order.
FetchSymbol(file, symbol, trade_date, resp, sleep) ==
    LET cached == LoadCache(file)
    IN  IF cached.raised THEN Raise(<<>>)
        ELSE IF Truthy(cached.value)
        THEN [outcome |-> "return", value |-> cached.value, write |-> None, trace |-> <<>>]
        ELSE IF resp.kind = "transport" THEN Raise(<<"get">>)
        ELSE IF resp.key \in {"Information", "Note", "Error Message"} THEN Raise(<<"get">>)
        ELSE IF resp.key = "none" THEN Raise(<<"get">>)
        ELSE IF DOMAIN resp.ts = {} THEN Raise(<<"get">>)
        ELSE LET result == BuildResult(symbol, trade_date, resp.ts)
             IN  [outcome |-> "return", value |-> result, write |-> result,
                  trace |-> <<"get", "save">> \o (IF sleep THEN <<"sleep">> ELSE <<>>)]

\* The dicts an earlier run can have left in the cache file of a key
CacheableEntries(symbol, trade_date) ==
    {BuildResult(symbol, trade_date, ts) : ts \in AllSeries \ {<<>>}}

NoFiles == [k \in Keys |-> Absent]

\* The disk before a call for key k: the other files are left out (no call
\* for k reads them).
DiskBefore(k) ==
    /\ \E file \in {Absent, Unreadable} \cup CacheableEntries(k[1], k[2]) :
          cache = [NoFiles EXCEPT ![k] = file]
    /\ cache_dir \in BOOLEAN
    /\ cache[k] # Absent => cache_dir

SymInit ==
    /\ spc = "call"
    /\ sargs \in [symbol : Symbols, trade_date : TradeDates, sleep : BOOLEAN]
    /\ sresp \in Responses
    /\ sret = None
    /\ strace = <<>>
    /\ DiskBefore(<<sargs.symbol, sargs.trade_date>>)
    /\ sfound = cache[<<sargs.symbol, sargs.trade_date>>]
    /\ DayIdle /\ ParseIdle /\ FaIdle /\ MainIdle /\ PmIdle

\* One call fetch_symbol(symbol, trade_date, api_key, sleep), start to end
SymCall ==
    /\ spc = "call"
    /\ LET k == <<sargs.symbol, sargs.trade_date>>
           r == FetchSymbol(cache[k], sargs.symbol, sargs.trade_date, sresp, sargs.sleep)
       IN  /\ spc' = (IF r.outcome = "return" THEN "returned" ELSE "raised")
           /\ sret' = r.value
           /\ strace' = r.trace
           /\ cache' = (IF r.write = None THEN cache ELSE [cache EXCEPT ![k] = r.write])
           /\ cache_dir' = TRUE
    /\ UNCHANGED <<sargs, sresp, sfound, dayVars, parseVars, faVars, mainVars, pmVars>>

\* The caller calls fetch_symbol again for the same symbol and trade_date,
\* later in the same process: the provider may answer differently by then.
SymAgain ==
    /\ spc \in {"returned", "raised"}
    /\ spc' = "call"
    /\ \E sleep \in BOOLEAN : sargs' = [sargs EXCEPT !.sleep = sleep]
    /\ sresp' \in LoopResponses
    /\ sret' = None
    /\ strace' = <<>>
    /\ UNCHANGED <<sfound, diskVars, dayVars, parseVars, faVars, mainVars, pmVars>>

SymNext == SymCall \/ SymAgain

SpecSymbol == SymInit /\ [][SymNext]_vars

Events(trace) == {trace[i] : i \in 1..Len(trace)}

SymKey == <<sargs.symbol, sargs.trade_date>>

IsEntry(file) == file # Absent /\ file # Unreadable

\* The call asked the provider and got a series with at least one date.
LiveWithSeries ==
    /\ spc \in {"returned", "raised"}
    /\ "get" \in Events(strace)
    /\ sresp.kind = "json"
    /\ sresp.key = "Time Series (Daily)"
    /\ DOMAIN sresp.ts # {}

\* C2: a call of fetch_symbol that finds a cache entry for (symbol,
\* trade_date) returns that entry unchanged, calls the provider not at all,
\* does not sleep and leaves every cache file as it was.
C2_CacheHit ==
    [][ (spc = "call" /\ IsEntry(cache[SymKey])) =>
            /\ spc' = "returned"
            /\ sret' = cache[SymKey]
            /\ Events(strace') \cap {"get", "sleep", "save"} = {}
            /\ cache' = cache ]_vars

\* A hit with sleep=True while the provider is down
C2_Witness ==
    /\ spc = "returned"
    /\ sargs.sleep
    /\ sresp.kind = "transport"
    /\ strace = <<>>
    /\ sret = cache[SymKey]
    /\ sret.date # sargs.trade_date

OlderDates(ts, x) == {y \in DOMAIN ts : y < x}

NextOlder(ts, x) == CHOOSE y \in OlderDates(ts, x) : \A z \in OlderDates(ts, x) : z <= y

\* change = close - prev_close and pct_change = (change / prev_close) * 100
\* with prev_close the close of series date p
DeltasAgainst(res, ts, p) ==
    /\ res.change = FSub(res.close, Float(ts[p]))
    /\ res.pct_change = FMul(FDiv(res.change, Float(ts[p])), Float(100))

\* C5 as written: one date in the series gives null change and pct_change;
\* two or more give the deltas against the next older entry.
C5_Original ==
    (LiveWithSeries /\ spc = "returned") =>
        IF Cardinality(DOMAIN sresp.ts) = 1
        THEN sret.change = None /\ sret.pct_change = None
        ELSE /\ OlderDates(sresp.ts, sret.date) # {}
             /\ DeltasAgainst(sret, sresp.ts, NextOlder(sresp.ts, sret.date))

\* C5 (amended): change and pct_change are null when the series has no date
\* older than the result's date (so whenever it has one date only); else
\* they are the deltas against the close of the next older date.
C5_Deltas ==
    (LiveWithSeries /\ spc = "returned") =>
        /\ sret.close = Float(sresp.ts[sret.date])
        /\ IF OlderDates(sresp.ts, sret.date) = {}
           THEN sret.change = None /\ sret.pct_change = None
           ELSE DeltasAgainst(sret, sresp.ts, NextOlder(sresp.ts, sret.date))

\* The requested date with two older dates in the series, the close falling
\* from 2 to 1 on it: change -1, pct_change -50
C5_Witness ==
    /\ LiveWithSeries
    /\ spc = "returned"
    /\ Cardinality(OlderDates(sresp.ts, sret.date)) = 2
    /\ sret.date = sargs.trade_date
    /\ sret.change = Float(-1)
    /\ sret.pct_change = Float(-50)

\* C6: a live call that gets a non-empty series returns; the date of what
\* it returns is trade_date when the series has it, and the most recent date
\* of the series when it has not.
C6_Fallback ==
    LiveWithSeries =>
        /\ spc = "returned"
        /\ sret.date \in DOMAIN sresp.ts
        /\ sret.close = Float(sresp.ts[sret.date])
        /\ IF sargs.trade_date \in DOMAIN sresp.ts
           THEN sret.date = sargs.trade_date
           ELSE \A y \in DOMAIN sresp.ts : y <= sret.date

\* The series holds an older and a newer date than the one asked for, not
\* the date itself: the newer one is returned.
C6_Witness ==
    /\ LiveWithSeries
    /\ spc = "returned"
    /\ sargs.trade_date \notin DOMAIN sresp.ts
    /\ \E y \in DOMAIN sresp.ts : y < sargs.trade_date
    /\ sret.date > sargs.trade_date

-----------------------------------------------------------------------------
(***************************************************************************)
(* fetch_all_markets, one loop iteration per step                          *)
(***************************************************************************)
\* The descriptors config/indices.json can list (a list may repeat one)
IndexPool ==
    { [symbol |-> "SPY", name |-> "S&P 500", group |-> "US"],
      [symbol |-> "EWG", name |-> "DAX", group |-> "Europe"] }

MaxIndices == 2
IndexLists == UNION {[1..n -> IndexPool] : n \in 0..MaxIndices}

\* The disk a process finds: each cache file absent or unreadable
DiskAtStart ==
    /\ cache \in [Keys -> {Absent, Unreadable}]
    /\ cache_dir = (\E k \in Keys : cache[k] # Absent)

\* rows = [] and the loop is entered
FAEnter(trade_date, indices) ==
    /\ fpc' = "loop"
    /\ fargs' = [trade_date |-> trade_date, indices |-> indices]
    /\ fi' = 1
    /\ rows' = <<>>
    /\ ftrace' = <<>>

\* The row of lines 129-136
DataRow(idx, data) ==
    [name |-> idx.name, symbol |-> idx.symbol, group |-> idx.group,
     close |-> data.close, change |-> data.change, pct_change |-> data.pct_change]

\* The row of lines 139-146
NullRow(idx) ==
    [name |-> idx.name, symbol |-> idx.symbol, group |-> idx.group,
     close |-> None, change |-> None, pct_change |-> None]

\* The provider answered with a series that has a date
Usable(resp) ==
    resp.kind = "json" /\ resp.key = "Time Series (Daily)" /\ DOMAIN resp.ts # {}

\* The events of iteration i: fetch_symbol's, the provider call marked with
\* whether its answer was usable, then the warning of the except branch
Logged(i, r, resp) ==
    [j \in 1..Len(r.trace) |->
        IF r.trace[j] = "get" THEN [ev |-> "get", i |-> i, usable |-> Usable(resp)]
        ELSE [ev |-> r.trace[j], i |-> i]]
    \o (IF r.outcome = "raise" THEN <<[ev |-> "warning", i |-> i]>> ELSE <<>>)

\* One pass of the loop body (lines 119-146) for indices[fi].  _load_cache
\* at line 126 is outside the try: its exception leaves fetch_all_markets.
FAIter ==
    /\ fpc = "loop"
    /\ fi <= Len(fargs.indices)
    /\ LET idx == fargs.indices[fi]
           k == <<idx.symbol, fargs.trade_date>>
           loaded == LoadCache(cache[k])
           is_cached == loaded.value # None
       IN  \/ /\ loaded.raised
              /\ fpc' = "raised"
              /\ UNCHANGED <<fi, rows, ftrace, cache>>
           \/ /\ ~loaded.raised
              /\ \E resp \in LoopResponses :
                    LET r == FetchSymbol(cache[k], idx.symbol, fargs.trade_date, resp, ~is_cached)
                    IN  /\ rows' = Append(rows, IF r.outcome = "return"
                                                THEN DataRow(idx, r.value) ELSE NullRow(idx))
                        /\ ftrace' = ftrace \o Logged(fi, r, resp)
                        /\ cache' = (IF r.write = None THEN cache
                                     ELSE [cache EXCEPT ![k] = r.write])
              /\ fi' = fi + 1
              /\ fpc' = fpc
    /\ cache_dir' = TRUE
    /\ UNCHANGED <<fargs, dayVars, parseVars, symVars, mainVars, pmVars>>

\* return rows
FAReturn ==
    /\ fpc = "loop"
    /\ fi > Len(fargs.indices)
    /\ fpc' = "returned"
    /\ UNCHANGED <<fargs, fi, rows, ftrace, diskVars, dayVars, parseVars, symVars, mainVars, pmVars>>

FaInit ==
    /\ FaIdle
    /\ DiskAtStart
    /\ DayIdle /\ ParseIdle /\ SymIdle /\ MainIdle /\ PmIdle

\* A caller other than main calls fetch_all_markets, again and again.
FACall ==
    /\ mpc = "idle"
    /\ fpc \in {"idle", "returned"}
    /\ \E trade_date \in TradeDates, indices \in IndexLists : FAEnter(trade_date, indices)
    /\ UNCHANGED <<diskVars, dayVars, parseVars, symVars, mainVars, pmVars>>

FaNext == FACall \/ FAIter \/ FAReturn

SpecFetchAll == FaInit /\ [][FaNext]_vars

\* C3: fetch_all_markets returns, with one row per configured index, row i
\* carrying the name, symbol and group of index i, whatever happens per
\* symbol; the row of a symbol whose fetch failed (the provider call failed
\* or gave nothing usable) has close, change and pct_change null.
C3_OneRowPerIndex ==
    fpc \in {"returned", "raised"} =>
        /\ fpc = "returned"
        /\ Len(rows) = Len(fargs.indices)
        /\ \A i \in 1..Len(rows) :
              /\ rows[i].name = fargs.indices[i].name
              /\ rows[i].symbol = fargs.indices[i].symbol
              /\ rows[i].group = fargs.indices[i].group
              /\ (\E j \in 1..Len(ftrace) :
                     ftrace[j].ev = "get" /\ ftrace[j].i = i /\ ~ftrace[j].usable)
                 => (rows[i].close = None /\ rows[i].change = None
                     /\ rows[i].pct_change = None)

-----------------------------------------------------------------------------
(***************************************************************************)
(* main (generate_daybreak.py, lines 243-367), one statement group per     *)
(* step.  An exception no try catches ends the process with Python's       *)
(* traceback and exit code 1.  The command line is well formed; --run-at   *)
(* only changes a label of the report and is left out, as are the display  *)
(* strings build_market_rows adds to the rows.                             *)
(***************************************************************************)
\* A str value of the environment
Str(chars) == [str |-> chars]

\* bool(x) of what os.getenv returns: None and "" are falsy
StrTruthy(x) == x # None /\ x.str # <<>>

CredValues == {None, Str(<<>>), Str(<<"k">>)}

Delivery(key, from, to) == [SENDGRID_API_KEY |-> key, EMAIL_FROM |-> from, EMAIL_TO |-> to]

\* The delivery settings tried: all set (one and two recipients), each one
\* unset, each one empty, a recipient setting of separators only, none set.
DeliveryConfigs ==
    LET k == Str(<<"k">>)
        f == Str(<<"f">>)
        a == Str(<<"a">>)
    IN  { Delivery(k, f, a), Delivery(k, f, Str(<<"a", ",", " ", "b">>)),
          Delivery(None, f, a), Delivery(Str(<<>>), f, a),
          Delivery(k, None, a), Delivery(k, Str(<<>>), a),
          Delivery(k, f, None), Delivery(k, f, Str(<<>>)),
          Delivery(k, f, Str(<<" ", ",">>)),
          Delivery(None, None, None) }

Environments ==
    {[ALPHAVANTAGE_API_KEY |-> av, ANTHROPIC_API_KEY |-> an,
      SENDGRID_API_KEY |-> dc.SENDGRID_API_KEY, EMAIL_FROM |-> dc.EMAIL_FROM,
      EMAIL_TO |-> dc.EMAIL_TO] : av \in CredValues, an \in CredValues, dc \in DeliveryConfigs}

\* The contents of config/indices.json tried
ConfigFiles ==
    LET spy == [symbol |-> "SPY", name |-> "S&P 500", group |-> "US"]
        ewg == [symbol |-> "EWG", name |-> "DAX", group |-> "Europe"]
    IN  {<<>>, <<spy>>, <<ewg, spy>>}

\* The responses of the narrative service tried: both sections, no marker
SampleTexts ==
    { <<"M", ":", " ", "x", " ", "P", ":", " ", "x">>, <<"M", ":", "x">> }

\* The static placeholders of lines 301-309
FALLBACK_BRIEF ==
    <<"*Markets closed the prior session. Full narrative unavailable - Claude API error.*">>
FALLBACK_TABLE ==
    <<"| Signal | Action | Rationale |", "|--------|--------|-------|",
      "| *Unavailable* | - | Claude API error |">>

\* s.split(c) for a one-character separator
RECURSIVE SplitOn(_, _)
SplitOn(s, c) ==
    LET at == {i \in 1..Len(s) : s[i] = c}
    IN  IF at = {} THEN <<s>>
        ELSE LET i == CHOOSE x \in at : \A y \in at : x <= y
             IN  <<SubSeq(s, 1, i - 1)>> \o SplitOn(SubSeq(s, i + 1, Len(s)), c)

NotEmpty(s) == s # <<>>

\* to_list of line 351
ParseRecipients(raw) ==
    LET parts == SplitOn(raw, ",")
    IN  SelectSeq([i \in 1..Len(parts) |-> Strip(parts[i])], NotEmpty)

Exit(code, by) == [code |-> code, by |-> by]

\* A file that was opened for writing and not written to the end
Partial == [file |-> "partial"]

\* context of lines 311-319
Context ==
    [trade_date |-> fargs.trade_date, market_rows |-> rows,
     morning_brief |-> narrative.morning_brief,
     positioning_tips |-> narrative.positioning_tips]

\* render_report: the Markdown template filled from the context
RenderReport(context) == [markdown |-> context]

MainInit ==
    /\ mpc = "start"
    /\ env \in Environments
    /\ argv \in [preview : BOOLEAN]
    /\ exit_code = None
    /\ narrative = None
    /\ report = None
    /\ stdout = FALSE
    /\ md_file = Absent
    /\ pdf_file = Absent
    /\ mail = None
    /\ mlog = {}
    /\ FaIdle
    /\ DiskAtStart
    /\ DayIdle /\ ParseIdle /\ SymIdle /\ PmIdle

\* Lines 244-258: the two required keys, or sys.exit(1)
MainCheckEnv ==
    /\ mpc = "start"
    /\ IF ~StrTruthy(env.ALPHAVANTAGE_API_KEY) \/ ~StrTruthy(env.ANTHROPIC_API_KEY)
       THEN mpc' = "exited" /\ exit_code' = Exit(1, "credentials")
       ELSE mpc' = "config" /\ exit_code' = exit_code
    /\ UNCHANGED <<env, argv, narrative, report, stdout, md_file, pdf_file, mail, mlog,
                   faVars, diskVars, dayVars, parseVars, symVars, pmVars>>

\* Lines 273-290: the trade date, config/indices.json (open and json.load
\* are in no try), and the call of fetch_all_markets
MainLoadConfig ==
    /\ mpc = "config"
    /\ \/ /\ mpc' = "exited"
          /\ exit_code' = Exit(1, "config")
          /\ UNCHANGED faVars
       \/ /\ \E trade_date \in TradeDates, indices \in ConfigFiles :
                FAEnter(trade_date, indices)
          /\ mpc' = "fetch"
          /\ exit_code' = exit_code
    /\ UNCHANGED <<env, argv, narrative, report, stdout, md_file, pdf_file, mail, mlog,
                   diskVars, dayVars, parseVars, symVars, pmVars>>

\* fetch_all_markets raised (line 290 is in no try)
MainFetchRaised ==
    /\ mpc = "fetch"
    /\ fpc = "raised"
    /\ mpc' = "exited"
    /\ exit_code' = Exit(1, "fetch")
    /\ UNCHANGED <<env, argv, narrative, report, stdout, md_file, pdf_file, mail, mlog,
                   faVars, diskVars, dayVars, parseVars, symVars, pmVars>>

\* A plausible slip: the handler logs and lets the exception go on.
MainNarrativeReraise ==
    /\ mpc = "fetch"
    /\ fpc = "returned"
    /\ \/ /\ mlog' = mlog \cup {"claude"}
          /\ mpc' = "exited"
          /\ exit_code' = Exit(1, "claude")
          /\ UNCHANGED narrative
       \/ /\ \E text \in SampleTexts : narrative' = ParseNarrative(text)
          /\ mpc' = "render"
          /\ UNCHANGED <<mlog, exit_code>>
    /\ UNCHANGED <<env, argv, report, stdout, md_file, pdf_file, mail,
                   faVars, diskVars, dayVars, parseVars, symVars, pmVars>>

\* Lines 293-309: call_claude raises and the placeholders are taken, or it
\* returns what it parsed from the response
MainNarrative ==
    /\ mpc = "fetch"
    /\ fpc = "returned"
    /\ \/ /\ narrative' = [morning_brief |-> FALLBACK_BRIEF,
                           positioning_tips |-> FALLBACK_TABLE]
          /\ mlog' = mlog \cup {"claude"}
       \/ /\ \E text \in SampleTexts : narrative' = ParseNarrative(text)
          /\ mlog' = mlog
    /\ mpc' = "render"
    /\ UNCHANGED <<env, argv, exit_code, report, stdout, md_file, pdf_file, mail,
                   faVars, diskVars, dayVars, parseVars, symVars, pmVars>>

\* A plausible slip: the preview flag is not looked at.
MainRenderThenSave ==
    /\ mpc = "render"
    /\ \/ /\ mpc' = "exited"
          /\ exit_code' = Exit(1, "render")
          /\ UNCHANGED report
       \/ /\ report' = RenderReport(Context)
          /\ mpc' = "save"
          /\ exit_code' = exit_code
    /\ UNCHANGED <<env, argv, narrative, stdout, md_file, pdf_file, mail, mlog,
                   faVars, diskVars, dayVars, parseVars, symVars, pmVars>>

\* Lines 311-321: render_report is in no try
MainRender ==
    /\ mpc = "render"
    /\ \/ /\ mpc' = "exited"
          /\ exit_code' = Exit(1, "render")
          /\ UNCHANGED report
       \/ /\ report' = RenderReport(Context)
          /\ mpc' = (IF argv.preview THEN "preview" ELSE "save")
          /\ exit_code' = exit_code
    /\ UNCHANGED <<env, argv, narrative, stdout, md_file, pdf_file, mail, mlog,
                   faVars, diskVars, dayVars, parseVars, symVars, pmVars>>

\* Lines 323-325: print(report), and main ends
MainPreview ==
    /\ mpc = "preview"
    /\ stdout' = TRUE
    /\ mpc' = "exited"
    /\ exit_code' = Exit(0, "end")
    /\ UNCHANGED <<env, argv, narrative, report, md_file, pdf_file, mail, mlog,
                   faVars, diskVars, dayVars, parseVars, symVars, pmVars>>

\* Lines 327-333: mkdir and write_text are in no try; a write that fails
\* leaves no file or a partial one
MainSave ==
    /\ mpc = "save"
    /\ \/ /\ md_file' \in {md_file, Partial}
          /\ mpc' = "exited"
          /\ exit_code' = Exit(1, "save")
       \/ /\ md_file' = report
          /\ mpc' = "pdf"
          /\ exit_code' = exit_code
    /\ UNCHANGED <<env, argv, narrative, report, stdout, pdf_file, mail, mlog,
                   faVars, diskVars, dayVars, parseVars, symVars, pmVars>>

\* Lines 335-344: render_pdf writes the PDF, or fails before or after it
\* opened the file; the failure is logged
MainPdf ==
    /\ mpc = "pdf"
    /\ \/ /\ pdf_file' = [pdf |-> Context]
          /\ mlog' = mlog
       \/ /\ pdf_file' \in {pdf_file, Partial}
          /\ mlog' = mlog \cup {"pdf"}
    /\ mpc' = "email"
    /\ UNCHANGED <<env, argv, exit_code, narrative, report, stdout, md_file, mail,
                   faVars, diskVars, dayVars, parseVars, symVars, pmVars>>

\* Lines 346-367: the three settings, send_report inside the try (it reads
\* the PDF file, so it cannot succeed without one), and main ends
MainEmail ==
    /\ mpc = "email"
    /\ IF StrTruthy(env.SENDGRID_API_KEY) /\ StrTruthy(env.EMAIL_FROM)
          /\ StrTruthy(env.EMAIL_TO)
       THEN LET to_list == ParseRecipients(env.EMAIL_TO.str)
            IN  \/ /\ pdf_file # Absent
                   /\ mail' = [to |-> to_list, status |-> "sent"]
                   /\ mlog' = mlog
                \/ /\ mail' = [to |-> to_list, status |-> "failed"]
                   /\ mlog' = mlog \cup {"email"}
       ELSE UNCHANGED <<mail, mlog>>
    /\ mpc' = "exited"
    /\ exit_code' = Exit(0, "end")
    /\ UNCHANGED <<env, argv, narrative, report, stdout, md_file, pdf_file,
                   faVars, diskVars, dayVars, parseVars, symVars, pmVars>>

Init == MainInit

Next ==
    \/ MainCheckEnv
    \/ MainLoadConfig
    \/ FAIter
    \/ FAReturn
    \/ MainFetchRaised
    \/ MainNarrative
    \/ MainRender
    \/ MainPreview
    \/ MainSave
    \/ MainPdf
    \/ MainEmail

Spec == Init /\ [][Next]_vars

CredentialMissing ==
    ~StrTruthy(env.ALPHAVANTAGE_API_KEY) \/ ~StrTruthy(env.ANTHROPIC_API_KEY)

\* No stage after the credential check has left a trace.
NothingStarted ==
    /\ fpc = "idle"
    /\ narrative = None
    /\ report = None
    /\ ~stdout
    /\ md_file = Absent
    /\ pdf_file = Absent
    /\ mail = None

\* C4: a run that has ended has exit code 1 if a required credential is
\* absent, and then no stage was started; it has exit code 0 otherwise,
\* whatever stage failed.
C4_ExitCodes ==
    mpc = "exited" =>
        IF CredentialMissing
        THEN exit_code.code = 1 /\ NothingStarted
        ELSE exit_code.code = 0

FallbackNarrative ==
    [morning_brief |-> FALLBACK_BRIEF, positioning_tips |-> FALLBACK_TABLE]

MarkdownSavedWithFallback ==
    /\ md_file = report
    /\ md_file.markdown.morning_brief = FALLBACK_BRIEF
    /\ md_file.markdown.positioning_tips = FALLBACK_TABLE

\* C8: once the narrative call has failed in a full run, the placeholders
\* are the narrative and main goes on to rendering; nothing but a failure of
\* rendering or of writing the Markdown file itself ends the run before the
\* file is saved, and the saved file holds the placeholder brief and table.
C8_NarrativeFallback ==
    ("claude" \in mlog /\ ~argv.preview) =>
        /\ narrative = FallbackNarrative
        /\ mpc \in {"render", "save", "pdf", "email", "exited"}
        /\ mpc \in {"pdf", "email"} => MarkdownSavedWithFallback
        /\ mpc = "exited" =>
              IF exit_code.code = 0 THEN MarkdownSavedWithFallback
              ELSE exit_code.by \in {"render", "save"}

\* A full run whose narrative call failed, ended with the report saved
C8_Witness ==
    /\ mpc = "exited"
    /\ ~argv.preview
    /\ "claude" \in mlog
    /\ exit_code.code = 0
    /\ MarkdownSavedWithFallback
    /\ Len(md_file.markdown.market_rows) = 2

AllThreePresent ==
    /\ StrTruthy(env.SENDGRID_API_KEY)
    /\ StrTruthy(env.EMAIL_FROM)
    /\ StrTruthy(env.EMAIL_TO)
    /\ ParseRecipients(env.EMAIL_TO.str) # <<>>

C10_Original ==
    argv.preview =>
        /\ md_file = Absent
        /\ pdf_file = Absent
        /\ mail = None
        /\ \A k \in Keys : ~IsEntry(cache[k])

\* C10 (amended): a preview run writes neither the Markdown nor the PDF
\* report and attempts no delivery, whatever the delivery settings are, and
\* one that ends normally has printed the rendered Markdown.
C10_Preview ==
    argv.preview =>
        /\ md_file = Absent
        /\ pdf_file = Absent
        /\ mail = None
        /\ "email" \notin mlog
        /\ (mpc = "exited" /\ exit_code.code = 0)
              => (stdout /\ report = RenderReport(Context))

\* A preview run with every delivery setting present that printed the
\* report and left a new cache file behind
C10_Witness ==
    /\ argv.preview
    /\ mpc = "exited"
    /\ exit_code.code = 0
    /\ stdout
    /\ StrTruthy(env.SENDGRID_API_KEY) /\ StrTruthy(env.EMAIL_FROM) /\ StrTruthy(env.EMAIL_TO)
    /\ \E k \in Keys : IsEntry(cache[k])

-----------------------------------------------------------------------------
(***************************************************************************)
(* The rate-limit delay of fetch_all_markets, read off ftrace               *)
(***************************************************************************)
\* Event j of ftrace is a provider call.
IsGet(j) == ftrace[j].ev = "get"

\* A sleep follows event j with no provider call in between.
SleepFollows(j) ==
    \E m \in (j + 1)..Len(ftrace) :
        /\ ftrace[m].ev = "sleep"
        /\ \A n \in (j + 1)..(m - 1) : ~IsGet(n)

\* Every sleep belongs to an iteration that called the provider.
SleepsOnlyAfterLive ==
    \A j \in 1..Len(ftrace) :
        ftrace[j].ev = "sleep" =>
            \E m \in 1..(j - 1) : IsGet(m) /\ ftrace[m].i = ftrace[j].i

\* C11: in fetch_all_markets every provider call, successful or failed, is
\* followed by the rate-limit sleep before the next provider call and before
\* the function returns; an iteration served from the cache does not sleep.
C11_DelayAfterLive ==
    /\ \A j \in 1..Len(ftrace) : IsGet(j) => SleepFollows(j)
    /\ SleepsOnlyAfterLive

\* The same for the provider calls that gave a usable series only
C11_DelayAfterSuccess ==
    /\ \A j \in 1..Len(ftrace) : (IsGet(j) /\ ftrace[j].usable) => SleepFollows(j)
    /\ SleepsOnlyAfterLive

-----------------------------------------------------------------------------
(***************************************************************************)
(* The cache files over a sequence of fetch_all_markets calls              *)
(***************************************************************************)
\* The events a step adds to ftrace (a new call starts from the empty trace)
NewEvents == IF fpc = "loop" /\ fpc' # "idle" /\ Len(ftrace') >= Len(ftrace)
             THEN SubSeq(ftrace', Len(ftrace) + 1, Len(ftrace'))
             ELSE <<>>

\* The key the loop is at
LoopKey == <<fargs.indices[fi].symbol, fargs.trade_date>>

\* The step is a live fetch that got a usable series, saved and returned.
SuccessfulLiveFetch ==
    /\ fpc = "loop" /\ fi <= Len(fargs.indices)
    /\ Len(NewEvents) >= 2
    /\ NewEvents[1].ev = "get" /\ NewEvents[1].usable
    /\ NewEvents[2].ev = "save"
    /\ \A j \in 1..Len(NewEvents) : NewEvents[j].ev # "warning"
    /\ Len(rows') = Len(rows) + 1
    /\ rows'[Len(rows')].close # None

\* The step is a live fetch that failed.
FailedLiveFetch ==
    \E j \in 1..Len(NewEvents) : NewEvents[j].ev = "get" /\ ~NewEvents[j].usable

\* C13: over any sequence of calls a cache entry, once there, never changes
\* (so each key's file is written at most once); a file changes only in a
\* successful live fetch for its key, which saves before it returns, and
\* then holds what that fetch returned; a failed fetch changes no file.
C13_WriteOnce ==
    [][ /\ \A k \in Keys :
              cache'[k] # cache[k] =>
                  /\ ~IsEntry(cache[k])
                  /\ IsEntry(cache'[k])
                  /\ SuccessfulLiveFetch
                  /\ k = LoopKey
                  /\ cache'[k].close = rows'[Len(rows')].close
        /\ FailedLiveFetch => cache' = cache
        /\ SuccessfulLiveFetch => cache'[LoopKey] # cache[LoopKey] ]_vars

\* One call with the same symbol listed twice: the first iteration wrote the
\* file, the second was served from it.
C13_Witness ==
    /\ fpc = "returned"
    /\ Len(fargs.indices) = 2
    /\ fargs.indices[1].symbol = fargs.indices[2].symbol
    /\ \E j \in 1..Len(ftrace) : ftrace[j].ev = "save" /\ ftrace[j].i = 1
    /\ \A j \in 1..Len(ftrace) : ftrace[j].i = 1
    /\ IsEntry(cache[<<fargs.indices[1].symbol, fargs.trade_date>>])
    /\ rows[2].close = cache[<<fargs.indices[1].symbol, fargs.trade_date>>].close

-----------------------------------------------------------------------------
(***************************************************************************)
(* Substituted entries over repeated fetch_symbol calls                    *)
(***************************************************************************)
\* The provider's answer is a series with a date.
UsableAnswer(resp) ==
    resp.kind = "json" /\ resp.key = "Time Series (Daily)" /\ DOMAIN resp.ts # {}

\* The most recent date of a series
Latest(ts) == CHOOSE y \in DOMAIN ts : \A z \in DOMAIN ts : z <= y

\* C14: a call that finds no cache file and a series without trade_date
\* saves, under the key of the requested trade_date, the data of the most
\* recent date of the series with that date as its date field; every call
\* for a key whose entry has another date than the key returns the entry
\* as it is, asks the provider nothing and leaves the entry in place,
\* whatever the provider's series holds by then.
C14_SubstitutePersisted ==
    [][ /\ (spc = "call" /\ cache[SymKey] = Absent /\ UsableAnswer(sresp)
              /\ sargs.trade_date \notin DOMAIN sresp.ts)
            => /\ spc' = "returned"
               /\ IsEntry(cache'[SymKey])
               /\ cache'[SymKey] = sret'
               /\ cache'[SymKey].date = Latest(sresp.ts)
               /\ cache'[SymKey].date # sargs.trade_date
               /\ cache'[SymKey].close = Float(sresp.ts[Latest(sresp.ts)])
        /\ (spc = "call" /\ IsEntry(cache[SymKey])
              /\ cache[SymKey].date # sargs.trade_date)
            => /\ spc' = "returned"
               /\ sret' = cache[SymKey]
               /\ "get" \notin Events(strace')
               /\ cache' = cache
        /\ (IsEntry(cache[SymKey]) /\ spc # "idle") => cache'[SymKey] = cache[SymKey]
      ]_vars

\* The process found no file, an earlier call of it saved a substitute, and
\* a later call got that substitute back although the provider's series has
\* the requested date by now.
C14_Witness ==
    /\ sfound = Absent
    /\ spc = "returned"
    /\ strace = <<>>
    /\ sret = cache[SymKey]
    /\ sret.date # sargs.trade_date
    /\ UsableAnswer(sresp)
    /\ sargs.trade_date \in DOMAIN sresp.ts

-----------------------------------------------------------------------------
(***************************************************************************)
(* fetch_premarket (data/fetch_premarket.py, lines 17-85).  One step per   *)
(* pass of the loop.  A field of the quote is absent or holds a string:    *)
(* empty, not a number, a number, or a number followed by "%".  Numbers    *)
(* are whole and of one digit, so ".2f" prints them with ".00".            *)
(***************************************************************************)
PREMARKET_SYMBOLS ==
    << [name |-> "S&P 500 ETF", symbol |-> "SPY"],
       [name |-> "Nasdaq 100 ETF", symbol |-> "QQQ"] >>

\* A key the dict does not have
Missing == [field |-> "missing"]

Text(kind, n) == [text |-> kind, n |-> n]

PriceFields == {Missing, Text("empty", 0), Text("junk", 0), Text("number", 1)}
ChangeFields == {Missing, Text("junk", 0)} \cup {Text("number", n) : n \in {-1, 0, 1}}
PercentFields == {Missing, Text("junk", 0), Text("number", 1), Text("percent", -1), Text("percent", 1)}

\* The "Global Quote" dicts tried; the one without any key is {}
Quotes == [price : PriceFields, change : ChangeFields, pct : PercentFields]

\* What requests.get, raise_for_status and resp.json() give: an exception,
\* or a payload with one of these keys ("none": none of them)
QuoteResponses ==
    {[kind |-> "transport"]}
    \cup {[kind |-> "json", key |-> k] : k \in {"Information", "Note", "Error Message", "none"}}
    \cup {[kind |-> "json", key |-> "Global Quote", quote |-> q] : q \in Quotes}

\* float(s) raises unless s is a number
CanFloat(x) == x # Missing /\ x.text = "number"

\* s.replace("%", "")
DropPercent(x) == IF x.text = "percent" THEN Text("number", x.n) ELSE x

\* bool(quote.get(key)): None and "" are falsy
FieldTruthy(x) == x # Missing /\ x.text # "empty"

\* bool(quote): {} is falsy
QuoteTruthy(q) == q.price # Missing \/ q.change # Missing \/ q.pct # Missing

Digit(n) == <<"0", "1", "2", "3", "4", "5", "6", "7", "8", "9">>[n + 1]

\* format(x, ".2f") and format(x, "+.2f") of a whole one-digit number
Fixed2(n, plus) ==
    (IF n < 0 THEN <<"-">> ELSE IF plus THEN <<"+">> ELSE <<>>)
    \o <<Digit(IF n < 0 THEN -n ELSE n), ".", "0", "0">>

\* _fallback, lines 74-85
Fallback(item) ==
    [name |-> item.name, symbol |-> item.symbol,
     close |-> None, change |-> None, pct_change |-> None,
     close_fmt |-> Str(<<"N", "/", "A">>), change_fmt |-> Str(<<"N", "/", "A">>),
     pct_fmt |-> Str(<<"N", "/", "A">>), arrow |-> Str(<<>>)]

\* The row of lines 51-61
QuoteRow(item, price, change, pct_change) ==
    [name |-> item.name, symbol |-> item.symbol,
     close |-> Float(price), change |-> Float(change), pct_change |-> Float(pct_change),
     close_fmt |-> Str(<<"$">> \o Fixed2(price, FALSE)),
     change_fmt |-> Str(Fixed2(change, TRUE)),
     pct_fmt |-> Str(Fixed2(pct_change, TRUE) \o <<"%">>),
     arrow |-> IF change >= 0 THEN Str(<<"U+25B2">>) ELSE Str(<<"U+25BC">>)]

\* The body of the try (lines 28-65) for one item: the row appended and
\* whether the pass ended in a continue
TryQuote(item, resp) ==
    IF resp.kind = "transport" THEN [row |-> Fallback(item), continue |-> FALSE]
    ELSE IF resp.key \in {"Information", "Note"} THEN [row |-> Fallback(item), continue |-> TRUE]
    ELSE IF resp.key # "Global Quote" THEN [row |-> Fallback(item), continue |-> TRUE]
    ELSE IF ~QuoteTruthy(resp.quote) \/ ~FieldTruthy(resp.quote.price)
         THEN [row |-> Fallback(item), continue |-> TRUE]
    ELSE IF ~CanFloat(resp.quote.price) THEN [row |-> Fallback(item), continue |-> FALSE]
    ELSE IF ~CanFloat(resp.quote.change) THEN [row |-> Fallback(item), continue |-> FALSE]
    ELSE IF resp.quote.pct = Missing \/ ~CanFloat(DropPercent(resp.quote.pct))
         THEN [row |-> Fallback(item), continue |-> FALSE]
    ELSE [row |-> QuoteRow(item, resp.quote.price.n, resp.quote.change.n,
                           DropPercent(resp.quote.pct).n),
          continue |-> FALSE]

PmInit ==
    /\ PmIdle
    /\ DayIdle /\ ParseIdle /\ DiskIdle /\ SymIdle /\ FaIdle /\ MainIdle

\* results = [] and the loop is entered
PMCall ==
    /\ pmpc \in {"idle", "returned"}
    /\ pmpc' = "loop"
    /\ pmi' = 1
    /\ results' = <<>>
    /\ pmtrace' = <<>>
    /\ UNCHANGED <<dayVars, parseVars, diskVars, symVars, faVars, mainVars>>

\* One pass of the loop (lines 25-69): a continue goes to the next item and
\* so past the sleep of lines 68-69.
PMIter ==
    /\ pmpc = "loop"
    /\ pmi <= Len(PREMARKET_SYMBOLS)
    /\ \E resp \in QuoteResponses :
          LET item == PREMARKET_SYMBOLS[pmi]
              r == TryQuote(item, resp)
              slept == ~r.continue /\ item # PREMARKET_SYMBOLS[Len(PREMARKET_SYMBOLS)]
          IN  /\ results' = Append(results, r.row)
              /\ pmtrace' = pmtrace \o <<[ev |-> "get", i |-> pmi, resp |-> resp]>>
                                    \o (IF slept THEN <<[ev |-> "sleep", i |-> pmi]>> ELSE <<>>)
    /\ pmi' = pmi + 1
    /\ pmpc' = pmpc
    /\ UNCHANGED <<dayVars, parseVars, diskVars, symVars, faVars, mainVars>>

\* return results
PMReturn ==
    /\ pmpc = "loop"
    /\ pmi > Len(PREMARKET_SYMBOLS)
    /\ pmpc' = "returned"
    /\ UNCHANGED <<pmi, results, pmtrace, dayVars, parseVars, diskVars, symVars, faVars, mainVars>>

PmNext == PMCall \/ PMIter \/ PMReturn

SpecPremarket == PmInit /\ [][PmNext]_vars

\* The answer carries a quote whose three fields are numbers.
GoodQuote(resp) ==
    /\ resp.kind = "json"
    /\ resp.key = "Global Quote"
    /\ resp.quote.price # Missing /\ resp.quote.price.text = "number"
    /\ resp.quote.change # Missing /\ resp.quote.change.text = "number"
    /\ resp.quote.pct # Missing /\ resp.quote.pct.text \in {"number", "percent"}

\* The answer of the call for item i
AnswerOf(i) == (CHOOSE e \in {pmtrace[j] : j \in 1..Len(pmtrace)} : e.ev = "get" /\ e.i = i).resp

TraceEvents == [j \in 1..Len(pmtrace) |-> pmtrace[j].ev]

\* Two rows in the order of PREMARKET_SYMBOLS, the fallback row for a
\* symbol whose call failed, and no sleep after the last call
TwoRowsInOrder ==
    /\ Len(results) = 2
    /\ \A i \in 1..2 :
          /\ results[i].name = PREMARKET_SYMBOLS[i].name
          /\ results[i].symbol = PREMARKET_SYMBOLS[i].symbol
          /\ ~GoodQuote(AnswerOf(i)) =>
                /\ results[i].close = None /\ results[i].change = None
                /\ results[i].pct_change = None
                /\ results[i].close_fmt = Str(<<"N", "/", "A">>)
                /\ results[i].change_fmt = Str(<<"N", "/", "A">>)
                /\ results[i].pct_fmt = Str(<<"N", "/", "A">>)
                /\ results[i].arrow = Str(<<>>)
    /\ TraceEvents[Len(TraceEvents)] = "get"

\* C12: a call of fetch_premarket that has returned called the provider for
\* the first symbol, slept, and called it for the second, whatever the first
\* call gave, and did not sleep after the second call; it returned two rows
\* in the order of the symbols, the row of a failed symbol being the
\* fallback row.
C12_SleepBetween ==
    pmpc = "returned" =>
        /\ TraceEvents = <<"get", "sleep", "get">>
        /\ TwoRowsInOrder

\* The same, the sleep being asked for only when the first call ended in an
\* exception or gave a quote with a price
C12_SleepUnlessContinue ==
    pmpc = "returned" =>
        /\ TwoRowsInOrder
        /\ IF AnswerOf(1).kind = "transport"
              \/ (AnswerOf(1).key = "Global Quote" /\ FieldTruthy(AnswerOf(1).quote.price))
           THEN TraceEvents = <<"get", "sleep", "get">>
           ELSE TraceEvents = <<"get", "get">>

=============================================================================
